---- MODULE Spec2Model ----
(***************************************************************************)
(* A model of pig-engine's chunk streaming scheduler, ChunkManager         *)
(* (src/chunk_manager.rs): the chunk store, the two mesh stores, the load  *)
(* and build queues, the in-flight sets, the two result channels and the   *)
(* last focal chunk, driven by update and resolve_mesh_uploads.            *)
(*                                                                         *)
(* Chunk coordinates (glam::IVec2) are pairs <<x, z>>.  A HashMap is       *)
(* modelled by its key set (voxel data and mesh buffers are not looked at  *)
(* by the scheduler), a VecDeque and an mpsc channel by a sequence, an     *)
(* Option by a sequence of length 0 or 1.                                  *)
(*                                                                         *)
(* The mesh job itself, ChunkMesher (src/mesher.rs) over Chunk             *)
(* (src/chunk.rs), is modelled apart from the scheduler, on chunk stores   *)
(* that hold voxel data: the second half of the module.                    *)
(***************************************************************************)
EXTENDS Integers, Sequences, FiniteSets, TLC

VARIABLES
    cm,     \* the ChunkManager struct (fields named as in the source)
    panic,  \* "" while the process runs, else the message it aborted with
    last,   \* what the last call did (history, read by the properties only)
    mesher  \* a ChunkMesher with the chunk store it reads (<<>>: none)

vars == <<cm, panic, last, mesher>>

(***************************************************************************)
(* Sizes.  The program's streaming constants are far beyond explicit-state *)
(* checking (a 133 x 133 candidate square), so the model runs the same     *)
(* code with small values.                                                 *)
(***************************************************************************)
\* chunk.rs:8
CHUNK_WIDTH == 16
\* chunk_manager.rs:15 (64 in the program)
CHUNK_LOAD_RADIUS == 1
\* chunk_manager.rs:18 (2 in the program)
CHUNK_LOAD_PADDING == 1
\* chunk_manager.rs:21 (32 in the program)
MAX_CHUNK_DATA_GENERATION_PER_FRAME == 6
\* chunk_manager.rs:23 (16 in the program)
MAX_CHUNK_MESH_GENERATION_PER_FRAME == 3
\* The player is placed in chunks 0 .. MaxPlayerChunk along x.
MaxPlayerChunk == 1

(***************************************************************************)
(* Helpers on sequences and integers.                                      *)
(***************************************************************************)
Range(q) == {q[i] : i \in 1..Len(q)}

InSeq(q, e) == \E i \in 1..Len(q) : q[i] = e

NoDup(q) == \A i, j \in 1..Len(q) : q[i] = q[j] => i = j

Min(a, b) == IF a <= b THEN a ELSE b

Max(a, b) == IF a >= b THEN a ELSE b

Abs(a) == IF a >= 0 THEN a ELSE -a

\* The loops of the scheduler are written `Loop(r, q)`: the loop body applied to
\* the elements of q in order, starting from the run record r = [cm, panic, tr]
\* (the manager, the abort message if any, the history of the call), and
\* stopping when the process has aborted.  Each splits q in halves, which only
\* keeps the evaluation shallow: the result is that of going through q front
\* to back.
Front(q) == SubSeq(q, 1, Len(q) \div 2)

Back(q) == SubSeq(q, Len(q) \div 2 + 1, Len(q))

\* i32::div_euclid for a positive divisor: the floor quotient.
DivEuclid(a, b) == a \div b

(***************************************************************************)
(* Player positions.  A world coordinate is an f32; the model writes it in *)
(* halves (h stands for h / 2), which is enough to have positions that are *)
(* negative, non-integer, and in different chunks.                         *)
(***************************************************************************)
\* `x as i32`: truncation toward zero.
F32AsI32(h) == IF h >= 0 THEN h \div 2 ELSE -((-h) \div 2)

PlayerAxis == {-1, 1} \cup {2 * CHUNK_WIDTH * k + 1 : k \in 1..MaxPlayerChunk}

\* <<x, z>> of the player: x = -0.5, 0.5, 16.5, ..; z = 0.5.
PlayerPositions == {<<x, 1>> : x \in PlayerAxis}

\* update, lines 110-113.
PlayerChunk(pos) ==
    << DivEuclid(F32AsI32(pos[1]), CHUNK_WIDTH),
       DivEuclid(F32AsI32(pos[2]), CHUNK_WIDTH) >>

(***************************************************************************)
(* queue_surrounding_chunks: the candidate square, its tags, its order.    *)
(***************************************************************************)
\* GetChunksAround over the half-open ranges -radius .. radius.
GetChunksAroundExclusive(position, radius) ==
    LET side == 2 * radius
    IN  [i \in 1..(side * side) |->
            << position[1] + ((i - 1) \div side) - radius,
               position[2] + ((i - 1) % side) - radius >>]

\* get_chunks_around: x outer, z inner, both over -radius ..= radius.
GetChunksAround(position, radius) ==
    LET side == 2 * radius + 1
    IN  [i \in 1..(side * side) |->
            << position[1] + ((i - 1) \div side) - radius,
               position[2] + ((i - 1) % side) - radius >>]

\* The tag computed in the map closure (lines 144-147).
Distance(player_chunk, chunk) ==
    Max(Abs(player_chunk[1] - chunk[1]), Abs(player_chunk[2] - chunk[2]))

\* `a_inside` / `b_inside` of the comparator.
Inside(dist) == dist <= CHUNK_LOAD_RADIUS

\* The comparator of sort_by (lines 155-161) returns Ordering::Less:
\* b_inside.cmp(&a_inside) is Less when a is inside and b is not (false < true),
\* Equal when both agree, and then dist_a.cmp(dist_b) decides.
CmpLess(a, b) ==
    \/ Inside(a[2]) /\ ~Inside(b[2])
    \/ Inside(a[2]) = Inside(b[2]) /\ a[2] < b[2]

\* slice::sort_by is stable: element i comes after every element that compares
\* Less than it and after every earlier element that compares Equal to it.
SortBy(q) ==
    LET n == Len(q)
        rank == [i \in 1..n |->
                    1 + Cardinality({j \in 1..n :
                            \/ CmpLess(q[j], q[i])
                            \/ j < i /\ ~CmpLess(q[i], q[j])})]
    IN  [k \in 1..n |-> q[CHOOSE i \in 1..n : rank[i] = k]]

\* `neighbors` after the sort: pairs <<chunk, distance>>.
Neighbors(player_chunk) ==
    LET around == GetChunksAround(player_chunk, CHUNK_LOAD_RADIUS + CHUNK_LOAD_PADDING)
    IN  SortBy([i \in 1..Len(around) |-> <<around[i], Distance(player_chunk, around[i])>>])

\* Neighbors, tabulated over the chunks the player can be in (the list depends
\* on nothing else).
NeighborsOf[player_chunk \in {PlayerChunk(pos) : pos \in PlayerPositions}] ==
    Neighbors(player_chunk)

\* NeedsLoad without the test of the in-flight set.
NeedsLoadIgnoringGenerating(c, neighbor) ==
    ~ ( \/ neighbor \in c.chunks
        \/ InSeq(c.load_queue, neighbor) )

\* NeedsLoad without the test of the queue.
NeedsLoadIgnoringQueue(c, neighbor) ==
    ~ ( \/ neighbor \in c.chunks
        \/ neighbor \in c.currently_generating )

\* NeedsLoad without the test of the chunk store.
NeedsLoadIgnoringChunks(c, neighbor) ==
    ~ ( \/ neighbor \in c.currently_generating
        \/ InSeq(c.load_queue, neighbor) )

\* The condition of lines 164-167 on the manager c.
NeedsLoad(c, neighbor) ==
    ~ ( \/ neighbor \in c.chunks
        \/ InSeq(c.load_queue, neighbor)
        \/ neighbor \in c.currently_generating )

\* NeedsMesh without the test of the in-flight set.
NeedsMeshIgnoringMeshing(c, neighbor) ==
    ~ ( \/ neighbor \in c.unuploaded_meshes
        \/ neighbor \in c.uploaded_meshes
        \/ InSeq(c.build_queue, neighbor) )

\* NeedsMesh looking at the unuploaded store only.
NeedsMeshIgnoringUploaded(c, neighbor) ==
    ~ ( \/ neighbor \in c.unuploaded_meshes
        \/ InSeq(c.build_queue, neighbor)
        \/ neighbor \in c.currently_meshing )

\* NeedsMesh without the test for a built mesh.
NeedsMeshIgnoringBuilt(c, neighbor) ==
    ~ ( \/ InSeq(c.build_queue, neighbor)
        \/ neighbor \in c.currently_meshing )

\* The condition of lines 175-181.
NeedsMesh(c, neighbor) ==
    LET mesh_built == \/ neighbor \in c.unuploaded_meshes
                      \/ neighbor \in c.uploaded_meshes
    IN  ~ ( \/ mesh_built
            \/ InSeq(c.build_queue, neighbor)
            \/ neighbor \in c.currently_meshing )

\* QueueNeighbor without the radius test of lines 171-173.
QueueNeighborAnyDistance(r, n) ==
    LET r1 == IF NeedsLoad(r.cm, n[1])
              THEN [r EXCEPT !.cm.load_queue = Append(@, n[1])]
              ELSE r
    IN  IF NeedsMesh(r1.cm, n[1])
        THEN [r1 EXCEPT !.cm.build_queue = Append(@, n[1])]
        ELSE r1

\* One iteration of the loop of lines 163-184.
QueueNeighbor(r, n) ==
    LET r1 == IF NeedsLoad(r.cm, n[1])
              THEN [r EXCEPT !.cm.load_queue = Append(@, n[1])]
              ELSE r
    IN  IF n[2] > CHUNK_LOAD_RADIUS THEN r1
        ELSE IF NeedsMesh(r1.cm, n[1])
             THEN [r1 EXCEPT !.cm.build_queue = Append(@, n[1])]
             ELSE r1

\* The loop of lines 163-184.
RECURSIVE QueueNeighbors(_, _)
QueueNeighbors(r, neighbors) ==
    IF r.panic # "" \/ Len(neighbors) = 0 THEN r
    ELSE IF Len(neighbors) = 1 THEN QueueNeighbor(r, neighbors[1])
    ELSE QueueNeighbors(QueueNeighbors(r, Front(neighbors)), Back(neighbors))

\* QueueSurroundingChunks that first empties both queues.
QueueSurroundingChunksAfterClear(r) ==
    IF r.cm.current_chunk = <<>> THEN r
    ELSE LET neighbors == NeighborsOf[r.cm.current_chunk[1]]
         IN  QueueNeighbors([r EXCEPT !.cm.load_queue = <<>>,
                                      !.cm.build_queue = <<>>,
                                      !.tr.neighbors = neighbors,
                                      !.tr.steps = Append(@, "enqueue")],
                            neighbors)

\* queue_surrounding_chunks, lines 135-185.
QueueSurroundingChunks(r) ==
    IF r.cm.current_chunk = <<>> THEN r
    ELSE LET neighbors == NeighborsOf[r.cm.current_chunk[1]]
         IN  QueueNeighbors([r EXCEPT !.tr.neighbors = neighbors,
                                      !.tr.steps = Append(@, "enqueue")],
                            neighbors)

(***************************************************************************)
(* load_chunks.                                                            *)
(***************************************************************************)
\* DrainChunk without the insertion into the chunk store.
DrainChunkNoInsert(r, position) ==
    [r EXCEPT !.cm.currently_generating = @ \ {position}]

\* The body of the loop of lines 189-192 for one received chunk.
DrainChunk(r, position) ==
    [r EXCEPT !.cm.currently_generating = @ \ {position},
              !.cm.chunks = @ \cup {position}]

\* DrainChunks that takes the first received chunk only.
DrainChunksFirstOnly(r, results) ==
    IF r.panic # "" \/ Len(results) = 0 THEN r
    ELSE DrainChunk(r, results[1])

\* The loop of lines 189-192 over chunk_rx.try_iter(): every result in the
\* channel is taken, in the order sent.
RECURSIVE DrainChunks(_, _)
DrainChunks(r, results) ==
    IF r.panic # "" \/ Len(results) = 0 THEN r
    ELSE IF Len(results) = 1 THEN DrainChunk(r, results[1])
    ELSE DrainChunks(DrainChunks(r, Front(results)), Back(results))

\* GenDispatchCount of a load_chunks that dispatches nothing.
GenDispatchCountNone(c) == 0

\* GenDispatchCount without the cap.
GenDispatchCountUncapped(c) == Len(c.load_queue)

\* The length of the drained prefix, line 196.
GenDispatchCount(c) == Min(MAX_CHUNK_DATA_GENERATION_PER_FRAME, Len(c.load_queue))

\* chunk_thread_pool.scope(..), lines 202-207: rayon's ThreadPool::scope runs the
\* closure inside the pool and returns when it has returned, so the chunk is
\* generated and sent before the loop goes on.
GenerateInScope(r, position) == [r EXCEPT !.cm.chunk_rx = Append(@, position)]

\* DispatchGeneration that does not record the position as being generated.
DispatchGenerationUntracked(r, position) ==
    GenerateInScope([r EXCEPT !.tr.gen_sent = Append(@, position)], position)

\* The body of the loop of lines 194-208 for one drained position.
DispatchGeneration(r, position) ==
    GenerateInScope([r EXCEPT !.cm.currently_generating = @ \cup {position},
                              !.tr.gen_sent = Append(@, position)],
                    position)

RECURSIVE DispatchGenerations(_, _)
DispatchGenerations(r, positions) ==
    IF r.panic # "" \/ Len(positions) = 0 THEN r
    ELSE IF Len(positions) = 1 THEN DispatchGeneration(r, positions[1])
    ELSE DispatchGenerations(DispatchGenerations(r, Front(positions)), Back(positions))

LoadChunks(r) ==
    IF r.panic # "" THEN r
    ELSE LET received == r.cm.chunk_rx
             r1 == DrainChunks([r EXCEPT !.cm.chunk_rx = <<>>,
                                         !.tr.chunk_recv = received,
                                         !.tr.steps = Append(@, "drain_chunk_rx")],
                               received)
             n  == GenDispatchCount(r1.cm)
             drained == SubSeq(r1.cm.load_queue, 1, n)
         IN  DispatchGenerations([r1 EXCEPT !.cm.load_queue = SubSeq(@, n + 1, Len(@)),
                                            !.tr.steps = Append(@, "dispatch_generation")],
                                 drained)

(***************************************************************************)
(* build_meshes.                                                           *)
(***************************************************************************)
DuplicateMesh == "should not build duplicate meshes"

UnloadedChunk == "cannot build mesh for unloaded chunk"

\* The assert! of lines 217-221, evaluated on the stores before the insert.
MeshIsNew(c, position) ==
    /\ position \notin c.unuploaded_meshes
    /\ position \notin c.uploaded_meshes

\* DrainMesh with the received mesh thrown away.
DrainMeshDropping(r, position) ==
    [r EXCEPT !.cm.currently_meshing = @ \ {position}]

\* The body of the loop of lines 214-222 for one received mesh: a failed
\* assertion aborts the process, the insert already made.
DrainMesh(r, position) ==
         [r EXCEPT !.cm.currently_meshing = @ \ {position},
                   !.cm.unuploaded_meshes = @ \cup {position},
                   !.panic = IF MeshIsNew(r.cm, position) THEN "" ELSE DuplicateMesh]

RECURSIVE DrainMeshes(_, _)
DrainMeshes(r, results) ==
    IF r.panic # "" \/ Len(results) = 0 THEN r
    ELSE IF Len(results) = 1 THEN DrainMesh(r, results[1])
    ELSE DrainMeshes(DrainMeshes(r, Front(results)), Back(results))

\* MeshDispatchCount of a dispatch step that drains nothing.
MeshDispatchCountNone(c) == 0

\* The length of the drained prefix, line 228.
MeshDispatchCount(c) == Min(MAX_CHUNK_MESH_GENERATION_PER_FRAME, Len(c.build_queue))

\* ChunkLoaded with the test left out.
ChunkLoadedUnchecked(c, position) == TRUE

\* The test of line 233, negated: the chunk's voxel data is in the store.
ChunkLoaded(c, position) == position \in c.chunks

\* mesh_thread_pool.scope(..), lines 240-243: ChunkMesher::new (mesher.rs:224-233)
\* looks the chunk up and panics when it is absent; the panic of a scope's
\* closure is propagated to the caller.  Otherwise the mesh is built and sent
\* before scope returns.
MeshInScope(r, position) ==
    IF position \notin r.cm.chunks
    THEN [r EXCEPT !.panic = UnloadedChunk]
    ELSE [r EXCEPT !.cm.mesh_rx = Append(@, position)]

\* The body of the loop of lines 226-244 for one drained position.
DispatchMesh(r, position) ==
    IF ~ChunkLoaded(r.cm, position)
    THEN [r EXCEPT !.tr.reinsert = Append(@, position)]
    ELSE MeshInScope([r EXCEPT !.cm.currently_meshing = @ \cup {position},
                               !.tr.mesh_sent = Append(@, position)],
                     position)

RECURSIVE DispatchMeshes(_, _)
DispatchMeshes(r, positions) ==
    IF r.panic # "" \/ Len(positions) = 0 THEN r
    ELSE IF Len(positions) = 1 THEN DispatchMesh(r, positions[1])
    ELSE DispatchMeshes(DispatchMeshes(r, Front(positions)), Back(positions))

\* Reinsert that drops the entries.
ReinsertNothing(r) == r

\* Reinsert that puts the entries at the front of the queue.
ReinsertAtFront(r) == [r EXCEPT !.cm.build_queue = r.tr.reinsert \o @]

\* build_queue.extend(reinsert), line 246.
Reinsert(r) == [r EXCEPT !.cm.build_queue = @ \o r.tr.reinsert]

BuildMeshes(r) ==
    IF r.panic # "" THEN r
    ELSE LET received == r.cm.mesh_rx
             r1 == DrainMeshes([r EXCEPT !.cm.mesh_rx = <<>>,
                                         !.tr.mesh_recv = received,
                                         !.tr.steps = Append(@, "drain_mesh_rx")],
                               received)
             m  == MeshDispatchCount(r1.cm)
             drained == SubSeq(r1.cm.build_queue, 1, m)
             r2 == DispatchMeshes([r1 EXCEPT !.cm.build_queue = SubSeq(@, m + 1, Len(@)),
                                             !.tr.steps = Append(@, "dispatch_mesh")],
                                  drained)
         IN  IF r1.panic # "" THEN r1
             ELSE IF r2.panic # "" THEN r2
             ELSE Reinsert(r2)

(***************************************************************************)
(* update and resolve_mesh_uploads.                                        *)
(***************************************************************************)
\* The test of lines 115-119: there is a current chunk and it is the player's.
SameChunk(c, player_chunk) == c.current_chunk = <<player_chunk>>

NoTrace(op, pos) ==
    [op |-> op, pos |-> pos, moved |-> FALSE, steps |-> <<>>, neighbors |-> <<>>,
     chunk_recv |-> <<>>, gen_sent |-> <<>>,
     mesh_recv |-> <<>>, mesh_sent |-> <<>>, reinsert |-> <<>>]

\* DrainAndDispatch with the early return of lines 115-119 taken first.
DrainAndDispatchUnlessSameChunk(c, pos) ==
    LET r == [cm |-> c, panic |-> "", tr |-> NoTrace("update", pos)]
    IN  IF c.current_chunk = <<PlayerChunk(pos)>> THEN r
        ELSE BuildMeshes(LoadChunks(r))

\* DrainAndDispatch with the two statements exchanged.
DrainAndDispatchMeshFirst(c, pos) ==
    LoadChunks(BuildMeshes([cm |-> c, panic |-> "", tr |-> NoTrace("update", pos)]))

\* The first two statements of update, lines 107-108.
DrainAndDispatch(c, pos) ==
    BuildMeshes(LoadChunks([cm |-> c, panic |-> "", tr |-> NoTrace("update", pos)]))

\* UpdateRun with the candidates enqueued before the drain and dispatch.
UpdateRunEnqueueFirst(c, pos) ==
    LET player_chunk == PlayerChunk(pos)
        r0 == [cm |-> c, panic |-> "", tr |-> NoTrace("update", pos)]
        r1 == IF SameChunk(c, player_chunk) THEN r0
              ELSE QueueSurroundingChunks([r0 EXCEPT !.cm.current_chunk = <<player_chunk>>,
                                                     !.tr.moved = TRUE])
    IN  BuildMeshes(LoadChunks(r1))

\* update(player_position), lines 106-123.
UpdateRun(c, pos) ==
    LET r2 == DrainAndDispatch(c, pos)
        player_chunk == PlayerChunk(pos)
    IN  IF r2.panic # "" THEN r2
        ELSE IF SameChunk(r2.cm, player_chunk) THEN r2
        ELSE QueueSurroundingChunks([r2 EXCEPT !.cm.current_chunk = <<player_chunk>>,
                                               !.tr.moved = TRUE])

\* ChunkManager::loaded_meshes, lines 259-261: the values of uploaded_meshes,
\* named by their coordinates.
LoadedMeshes(c) == c.uploaded_meshes

\* ChunkManager::chunks_loaded, lines 264-266.
ChunksLoaded(c) == Cardinality(c.chunks)

\* ChunkManager::meshes_loaded, lines 269-271.
MeshesLoaded(c) == Cardinality(c.uploaded_meshes) + Cardinality(c.unuploaded_meshes)

\* resolve_mesh_uploads with the drained meshes dropped.
ResolveRunDropping(c) ==
    [cm |-> [c EXCEPT !.unuploaded_meshes = {}],
     panic |-> "",
     tr |-> NoTrace("resolve_mesh_uploads", <<>>)]

\* resolve_mesh_uploads, lines 126-131: every unuploaded mesh is drained into
\* uploaded_meshes under its position.
ResolveRun(c) ==
    [cm |-> [c EXCEPT !.uploaded_meshes = @ \cup c.unuploaded_meshes,
                      !.unuploaded_meshes = {}],
     panic |-> "",
     tr |-> NoTrace("resolve_mesh_uploads", <<>>)]

\* ChunkManager::new, lines 86-102.
New ==
    [chunks |-> {}, unuploaded_meshes |-> {}, uploaded_meshes |-> {},
     load_queue |-> <<>>, build_queue |-> <<>>,
     currently_generating |-> {}, currently_meshing |-> {},
     chunk_rx |-> <<>>, mesh_rx |-> <<>>,
     current_chunk |-> <<>>]

Init ==
    /\ cm = New
    /\ panic = ""
    /\ last = NoTrace("new", <<>>)
    /\ mesher = <<>>

Update ==
    /\ panic = ""
    /\ \E pos \in PlayerPositions :
          LET r == UpdateRun(cm, pos)
          IN  /\ cm' = r.cm
              /\ panic' = r.panic
              /\ last' = r.tr
    /\ UNCHANGED mesher

ResolveMeshUploads ==
    /\ panic = ""
    /\ LET r == ResolveRun(cm)
       IN  /\ cm' = r.cm
           /\ panic' = r.panic
           /\ last' = r.tr
    /\ UNCHANGED mesher

Next == Update \/ ResolveMeshUploads

Spec == Init /\ [][Next]_vars

\* The event loop (app.rs lines 73-74 and 121-131) requests a redraw whenever
\* it is about to wait and calls update and then resolve_mesh_uploads on
\* every redraw: both are called again and again for as long as the process
\* lives.  UpdateFairness is WF_vars(Update) with ENABLED <<Update>>_vars
\* written out: an update at a position other than the last one changes
\* `last`, so a changing update is possible exactly as long as panic = "".
UpdateFairness == []<>(panic # "") \/ []<><<Update>>_vars

SpecFair == Init /\ [][Next]_vars /\ UpdateFairness /\ WF_vars(ResolveMeshUploads)

(***************************************************************************)
(* load_chunks on its own: the drain loop of lines 189-192 applied to what  *)
(* the types of the fields and of the channel allow, resident coordinates   *)
(* among the received results included.                                     *)
(***************************************************************************)
MaxPending == 2

\* Coordinates of the results the generation channel may carry.
PendingCoords == {<<0, 0>>, <<1, 0>>, <<0, 1>>}

\* The sequences without repetition over S of length at most n.
SeqsWithoutRepetition(S, n) ==
    {q \in UNION {[1..k -> S] : k \in 0..n} : NoDup(q)}

\* A manager whose store, in-flight set, load-queue and generation channel are
\* any values of their types over PendingCoords.
InitLoadChunks ==
    /\ \E resident \in SUBSET PendingCoords, generating \in SUBSET PendingCoords,
          pending \in SeqsWithoutRepetition(PendingCoords, MaxPending),
          queued \in SeqsWithoutRepetition(PendingCoords, 1) :
          cm = [New EXCEPT !.chunks = resident,
                           !.currently_generating = generating,
                           !.chunk_rx = pending,
                           !.load_queue = queued]
    /\ panic = ""
    /\ last = NoTrace("new", <<>>)
    /\ mesher = <<>>

\* One call of load_chunks, lines 188-209.
LoadChunksStep ==
    /\ panic = ""
    /\ LET r == LoadChunks([cm |-> cm, panic |-> "", tr |-> NoTrace("load_chunks", <<>>)])
       IN  /\ cm' = r.cm
           /\ panic' = r.panic
           /\ last' = r.tr
    /\ UNCHANGED mesher

NextLoadChunks == LoadChunksStep

SpecLoadChunks == InitLoadChunks /\ [][NextLoadChunks]_vars

(***************************************************************************)
(* Chunk (src/chunk.rs).  A VoxelGrid is modelled by the function from the *)
(* local positions <<x, y, z>> of its voxels that are not Air to their     *)
(* Voxel; every other position of the grid holds Air.  A call that may     *)
(* panic yields a record [panic, value], panic = "" when it returns.       *)
(***************************************************************************)
CHUNK_HEIGHT == 256

Ok(value) == [panic |-> "", value |-> value]

Panicked(message) == [panic |-> message, value |-> FALSE]

\* The panic of an array index beyond the array's length.
IndexOutOfBounds == "index out of bounds"

\* `n as usize` for an isize n: a negative n wraps around.
AsUsize(n) == IF n >= 0 THEN n ELSE n + 2 ^ 64

\* `h as usize` for an f64 h (written by its integer part): saturating.
F64AsUsize(h) == IF h >= 0 THEN h ELSE 0

\* Chunk::new, lines 72-76: every voxel Air.
ChunkNew(position) == [position |-> position, voxels |-> <<>>]

\* The positions voxels[y][z][x] can index: the dimensions of VoxelGrid,
\* line 16.
InGrid(block_pos) ==
    /\ block_pos[1] \in 0..(CHUNK_WIDTH - 1)
    /\ block_pos[2] \in 0..(CHUNK_HEIGHT - 1)
    /\ block_pos[3] \in 0..(CHUNK_WIDTH - 1)

\* Chunk::is_block_full, lines 85-89: an unchecked index into the grid.
IsBlockFull(chunk, block_pos) ==
    IF InGrid(block_pos) THEN Ok(block_pos \in DOMAIN chunk.voxels)
    ELSE Panicked(IndexOutOfBounds)

\* Chunk::offset_local_in_direction, lines 106-122.
OffsetLocalInDirection(chunk, local_position, direction) ==
    LET chunk_x_offset == chunk.position[1] * CHUNK_WIDTH
        chunk_z_offset == chunk.position[2] * CHUNK_WIDTH
    IN  << local_position[1] + direction[1] + chunk_x_offset,
           local_position[2] + direction[2],
           local_position[3] + direction[3] + chunk_z_offset >>

\* GetLocalPosition with the x and z of the result exchanged.
GetLocalPositionSwapped(chunk, world) ==
    LET chunk_x_offset == chunk.position[1] * CHUNK_WIDTH
        chunk_z_offset == chunk.position[2] * CHUNK_WIDTH
        x == world[1] - chunk_x_offset
        z == world[3] - chunk_z_offset
    IN  IF world[2] < 0 THEN <<>>
        ELSE << <<AsUsize(z), AsUsize(world[2]), AsUsize(x)>> >>

\* Chunk::get_local_position, lines 125-137: None (<<>>) below the world only.
GetLocalPosition(chunk, world) ==
    LET chunk_x_offset == chunk.position[1] * CHUNK_WIDTH
        chunk_z_offset == chunk.position[2] * CHUNK_WIDTH
        x == world[1] - chunk_x_offset
        z == world[3] - chunk_z_offset
    IN  IF world[2] < 0 THEN <<>>
        ELSE << <<AsUsize(x), AsUsize(world[2]), AsUsize(z)>> >>

\* LayerVoxel with the surface arm first.
LayerVoxelSurfaceFirst(y, height) ==
    IF y = height THEN "Grass"
    ELSE IF y \in 200..CHUNK_HEIGHT THEN "Snow"
    ELSE IF y >= 150 THEN "Stone"
    ELSE "Dirt"

\* The match of lines 153-158 on y.
LayerVoxel(y, height) ==
    IF y \in 200..CHUNK_HEIGHT THEN "Snow"
    ELSE IF y >= 150 THEN "Stone"
    ELSE IF y = height THEN "Grass"
    ELSE "Dirt"

\* What the noise function may make of a column: line 149's
\* (noise + 1) / 2 * CHUNK_HEIGHT at the world column (x, z), by its integer
\* part.  The terrains: level ground; a ridge along both sides of every chunk
\* border in x; a higher ridge along every chunk border in z; a peak above the
\* grid at the columns whose x and z are multiples of CHUNK_WIDTH.
\* Two more for fill_perlin alone (FillInputs): stairs that take every
\* height from 0 to CHUNK_HEIGHT - 1 within each chunk, and a slope that rises
\* with x + z from below zero to above the grid.
Terrains == {"flat", "ridge_x", "ridge_z", "peak"}

NoiseHeight(terrain, x, z) ==
    CASE terrain = "flat" -> 0
      [] terrain = "ridge_x" -> IF x % CHUNK_WIDTH \in {0, CHUNK_WIDTH - 1} THEN 1 ELSE 0
      [] terrain = "ridge_z" -> IF z % CHUNK_WIDTH \in {0, CHUNK_WIDTH - 1} THEN 2 ELSE 0
      [] terrain = "peak" -> IF x % CHUNK_WIDTH = 0 /\ z % CHUNK_WIDTH = 0
                             THEN CHUNK_HEIGHT + CHUNK_WIDTH ELSE 1
      [] terrain = "stairs" -> (x % CHUNK_WIDTH) + CHUNK_WIDTH * (z % CHUNK_WIDTH)
      [] terrain = "slope" -> x + z + 140

\* FillPerlin with the clamp of the line commented out at 148:
\* min(CHUNK_HEIGHT - 1).
FillPerlinToTop(chunk, terrain) ==
    LET global_position == << chunk.position[1] * CHUNK_WIDTH,
                              chunk.position[2] * CHUNK_WIDTH >>
        height == [c \in (0..(CHUNK_WIDTH - 1)) \X (0..(CHUNK_WIDTH - 1)) |->
                     F64AsUsize(Min(NoiseHeight(terrain, global_position[1] + c[1],
                                                global_position[2] + c[2]),
                                    CHUNK_HEIGHT - 1))]
    IN  [chunk EXCEPT !.voxels =
            [v \in UNION {{<<c[1], y, c[2]>> : y \in 0..height[c]} : c \in DOMAIN height}
                |-> LayerVoxel(v[2], height[<<v[1], v[3]>>])]]

\* Chunk::fill_perlin, lines 140-162.
FillPerlin(chunk, terrain) ==
    LET global_position == << chunk.position[1] * CHUNK_WIDTH,
                              chunk.position[2] * CHUNK_WIDTH >>
        height == [c \in (0..(CHUNK_WIDTH - 1)) \X (0..(CHUNK_WIDTH - 1)) |->
                     F64AsUsize(Min(NoiseHeight(terrain, global_position[1] + c[1],
                                                global_position[2] + c[2]),
                                    CHUNK_HEIGHT - 2))]
    IN  [chunk EXCEPT !.voxels =
            [v \in UNION {{<<c[1], y, c[2]>> : y \in 0..height[c]} : c \in DOMAIN height}
                |-> LayerVoxel(v[2], height[<<v[1], v[3]>>])]]

(***************************************************************************)
(* ChunkMesher (src/mesher.rs).  Vertex positions are written in half      *)
(* units, like the player's.                                               *)
(***************************************************************************)
FACE_NORMALS ==
    << <<"Up",   << 0,  1,  0>> >>,
       <<"Down", << 0, -1,  0>> >>,
       <<"Side", << 1,  0,  0>> >>,
       <<"Side", <<-1,  0,  0>> >>,
       <<"Side", << 0,  0,  1>> >>,
       <<"Side", << 0,  0, -1>> >> >>

FACE_INDICES == <<0, 1, 2, 2, 3, 0>>

FACE_VERTICES ==
    << << <<-1,  1, -1>>, <<-1,  1,  1>>, << 1,  1,  1>>, << 1,  1, -1>> >>,
       << <<-1, -1,  1>>, <<-1, -1, -1>>, << 1, -1, -1>>, << 1, -1,  1>> >>,
       << << 1,  1,  1>>, << 1, -1,  1>>, << 1, -1, -1>>, << 1,  1, -1>> >>,
       << <<-1,  1, -1>>, <<-1, -1, -1>>, <<-1, -1,  1>>, <<-1,  1,  1>> >>,
       << <<-1,  1,  1>>, <<-1, -1,  1>>, << 1, -1,  1>>, << 1,  1,  1>> >>,
       << << 1,  1, -1>>, << 1, -1, -1>>, <<-1, -1, -1>>, <<-1,  1, -1>> >> >>

\* TEXTURE_UPLOAD_ORDER as load_textures leaves it when the assets directory
\* holds one image for every voxel and face.
TEXTURE_UPLOAD_ORDER ==
    << <<"Grass", "Up">>, <<"Grass", "Down">>, <<"Grass", "Side">>,
       <<"Dirt", "Up">>,  <<"Dirt", "Down">>,  <<"Dirt", "Side">>,
       <<"Stone", "Up">>, <<"Stone", "Down">>, <<"Stone", "Side">>,
       <<"Snow", "Up">>,  <<"Snow", "Down">>,  <<"Snow", "Side">> >>

\* asset_loader::get_texture_index: the position of the first match, if any.
GetTextureIndex(voxel, face) ==
    LET hits == {i \in 1..Len(TEXTURE_UPLOAD_ORDER) :
                    TEXTURE_UPLOAD_ORDER[i] = <<voxel, face>>}
    IN  IF hits = {} THEN <<>>
        ELSE << (CHOOSE i \in hits : \A j \in hits : i <= j) - 1 >>

MissingTexture == "could not find texture"

\* ChunkMesher::new, lines 224-233.
ChunkMesherNew(chunks, chunk) ==
    IF chunk \in DOMAIN chunks
    THEN Ok([chunk |-> chunks[chunk], chunks |-> chunks,
             vertices |-> <<>>, indices |-> <<>>])
    ELSE Panicked(UnloadedChunk)

\* self.chunk.get_world_position(position, normal), called at line 293: the
\* world position of the voxel next to `position` in the direction `normal`.
GetWorldPosition(chunk, position, normal) ==
    OffsetLocalInDirection(chunk, position, normal)

\* IsSolid with the lookup of an absent chunk fatal.
IsSolidAbsentFatal(chunks, world) ==
    LET position == << DivEuclid(world[1], CHUNK_WIDTH),
                       DivEuclid(world[3], CHUNK_WIDTH) >>
    IN  IF position \notin DOMAIN chunks THEN Panicked(UnloadedChunk)
        ELSE LET local == GetLocalPosition(chunks[position], world)
             IN  IF local = <<>> THEN Ok(FALSE)
                 ELSE IsBlockFull(chunks[position], local[1])

\* IsSolid with an absent chunk taken for solid.
IsSolidUnlessLoaded(chunks, world) ==
    LET position == << DivEuclid(world[1], CHUNK_WIDTH),
                       DivEuclid(world[3], CHUNK_WIDTH) >>
    IN  IF position \notin DOMAIN chunks THEN Ok(TRUE)
        ELSE LET local == GetLocalPosition(chunks[position], world)
             IN  IF local = <<>> THEN Ok(FALSE)
                 ELSE IsBlockFull(chunks[position], local[1])

\* The chunk position is_solid looks up, lines 250-253.
OwningChunk(world) ==
    << DivEuclid(world[1], CHUNK_WIDTH), DivEuclid(world[3], CHUNK_WIDTH) >>

\* ChunkMesher::is_solid, lines 249-264.
IsSolid(chunks, world) ==
    LET position == << DivEuclid(world[1], CHUNK_WIDTH),
                       DivEuclid(world[3], CHUNK_WIDTH) >>
    IN  IF position \notin DOMAIN chunks THEN Ok(FALSE)
        ELSE LET local == GetLocalPosition(chunks[position], world)
             IN  IF local = <<>> THEN Ok(FALSE)
                 ELSE IsBlockFull(chunks[position], local[1])

AMBIENT_NEIGHBOR_OFFSETS ==
    << << << 0,  1, -1>>, <<-1,  1, -1>>, <<-1,  1,  0>>, <<-1,  1,  1>>,
          << 0,  1,  1>>, << 1,  1,  1>>, << 1,  1,  0>>, << 1,  1, -1>> >>,
       << << 0, -1, -1>>, <<-1, -1, -1>>, <<-1, -1,  0>>, <<-1, -1,  1>>,
          << 0, -1,  1>>, << 1, -1,  1>>, << 1, -1,  0>>, << 1, -1, -1>> >>,
       << << 1,  1,  0>>, << 1,  1,  1>>, << 1,  0,  1>>, << 1, -1,  1>>,
          << 1, -1,  0>>, << 1, -1, -1>>, << 1,  0, -1>>, << 1,  1, -1>> >>,
       << <<-1,  1,  0>>, <<-1,  1, -1>>, <<-1,  0, -1>>, <<-1, -1, -1>>,
          <<-1, -1,  0>>, <<-1, -1,  1>>, <<-1,  0,  1>>, <<-1,  1,  1>> >>,
       << << 0,  1,  1>>, <<-1,  1,  1>>, <<-1,  0,  1>>, <<-1, -1,  1>>,
          << 0, -1,  1>>, << 1, -1,  1>>, << 1,  0,  1>>, << 1,  1,  1>> >>,
       << << 0,  1, -1>>, <<-1,  1, -1>>, <<-1,  0, -1>>, <<-1, -1, -1>>,
          << 0, -1, -1>>, << 1, -1, -1>>, << 1,  0, -1>>, << 1,  1, -1>> >> >>

\* The three entries of the ring AMBIENT_NEIGHBOR_OFFSETS[normal_index] that
\* a vertex of the face samples: its corner entry, the one pointing from the
\* centre of the voxel through the vertex, and the two edge entries next to
\* it in the ring.  <<edge0, edge1, corner>>.
VertexSamples(normal_index, vertex_index) ==
    LET ring == AMBIENT_NEIGHBOR_OFFSETS[normal_index]
        c == CHOOSE i \in 1..8 : ring[i] = FACE_VERTICES[normal_index][vertex_index]
    IN  << ring[((c + 6) % 8) + 1], ring[(c % 8) + 1], ring[c] >>

\* The occlusion of a vertex with every sample counted, two solid edges
\* included.
AmbientOcclusionOfSum(edge0, edge1, corner) ==
    3 - ((IF edge0 THEN 1 ELSE 0) + (IF edge1 THEN 1 ELSE 0) + (IF corner THEN 1 ELSE 0))

\* The occlusion of a vertex from its three samples: 0 when both edges are
\* solid, else 3 less the number of solid samples.
AmbientOcclusionOf(edge0, edge1, corner) ==
    IF edge0 /\ edge1 THEN 0
    ELSE 3 - ((IF edge0 THEN 1 ELSE 0) + (IF edge1 THEN 1 ELSE 0)
                + (IF corner THEN 1 ELSE 0))

\* self.calculate_ambient_occlusion(position, normal_index, vertex_index),
\* called at line 308; lines 268-279 hold an unfinished body.  The samples
\* are is_solid at the world positions of the three ring neighbours.
CalculateAmbientOcclusion(m, position, normal_index, vertex_index) ==
    LET offsets == VertexSamples(normal_index, vertex_index)
        edge0 == IsSolid(m.chunks, GetWorldPosition(m.chunk, position, offsets[1]))
        edge1 == IsSolid(m.chunks, GetWorldPosition(m.chunk, position, offsets[2]))
        corner == IsSolid(m.chunks, GetWorldPosition(m.chunk, position, offsets[3]))
    IN  IF edge0.panic # "" THEN Panicked(edge0.panic)
        ELSE IF edge1.panic # "" THEN Panicked(edge1.panic)
        ELSE IF corner.panic # "" THEN Panicked(corner.panic)
        ELSE Ok(AmbientOcclusionOf(edge0.value, edge1.value, corner.value))

IndexOffsetFromLast(indices) ==
    IF Len(indices) > 0 THEN indices[Len(indices)] + 1 ELSE 0

\* The offset of lines 319-324: one more than the last but one index, 0 for
\* the first face.
IndexOffset(indices) ==
    LET at == Max(Len(indices) - 2, 0)
    IN  IF at < Len(indices) THEN indices[at + 1] + 1 ELSE 0

\* The read self.chunk.voxels[y][z][x] of line 287: the grid holds a voxel at
\* every position, Air where the model's voxels record has no entry.
VoxelAt(chunk, position) ==
    IF position \in DOMAIN chunk.voxels THEN chunk.voxels[position] ELSE "Air"

\* AddFace with the vertices left at the chunk's local coordinates.
AddFaceNoChunkOffset(r, position, normal_index) ==
    IF r.panic # "" THEN r
    ELSE
    LET face == FACE_NORMALS[normal_index][1]
        normal == FACE_NORMALS[normal_index][2]
        solid == IsSolid(r.m.chunks, GetWorldPosition(r.m.chunk, position, normal))
        texture_index == GetTextureIndex(VoxelAt(r.m.chunk, position), face)
        offset == IndexOffset(r.m.indices)
    IN  IF solid.panic # "" THEN [r EXCEPT !.panic = solid.panic]
        ELSE IF solid.value THEN r
        ELSE IF texture_index = <<>> THEN [r EXCEPT !.panic = MissingTexture]
        ELSE [r EXCEPT
                !.m.vertices = @ \o
                    [i \in 1..4 |->
                        [pos |-> [a \in 1..3 |-> FACE_VERTICES[normal_index][i][a]
                                                  + 2 * position[a]],
                         normal |-> normal,
                         texture_index |-> texture_index[1]]],
                !.m.indices = @ \o [i \in 1..6 |-> FACE_INDICES[i] + offset]]

\* The body of the loop of lines 292-327 for one face of the voxel at
\* `position`.  r = [m, panic]: the mesher and the panic that ended the build.
\* A vertex carries pos, normal and the texture index (the upper half of
\* texture_ambient).
AddFace(r, position, normal_index) ==
    IF r.panic # "" THEN r
    ELSE
    LET face == FACE_NORMALS[normal_index][1]
        normal == FACE_NORMALS[normal_index][2]
        solid == IsSolid(r.m.chunks, GetWorldPosition(r.m.chunk, position, normal))
        voxel == VoxelAt(r.m.chunk, position)
        texture_index == GetTextureIndex(voxel, face)
        chunk_offset == << 2 * CHUNK_WIDTH * r.m.chunk.position[1], 0,
                           2 * CHUNK_WIDTH * r.m.chunk.position[2] >>
        offset == IndexOffset(r.m.indices)
    IN  IF solid.panic # "" THEN [r EXCEPT !.panic = solid.panic]
        ELSE IF solid.value THEN r
        ELSE IF texture_index = <<>> THEN [r EXCEPT !.panic = MissingTexture]
        ELSE [r EXCEPT
                !.m.vertices = @ \o
                    [i \in 1..4 |->
                        [pos |-> [a \in 1..3 |-> FACE_VERTICES[normal_index][i][a]
                                                  + 2 * position[a] + chunk_offset[a]],
                         normal |-> normal,
                         texture_index |-> texture_index[1]]],
                !.m.indices = @ \o [i \in 1..6 |-> FACE_INDICES[i] + offset]]

RECURSIVE AddFacesButLast(_, _, _)
AddFacesButLast(r, position, normal_index) ==
    IF r.panic # "" \/ normal_index > Len(FACE_NORMALS) - 1 THEN r
    ELSE AddFacesButLast(AddFace(r, position, normal_index), position, normal_index + 1)

\* The loop of lines 292-327 from the face normal_index on.
RECURSIVE AddFaces(_, _, _)
AddFaces(r, position, normal_index) ==
    IF r.panic # "" \/ normal_index > Len(FACE_NORMALS) THEN r
    ELSE AddFaces(AddFace(r, position, normal_index), position, normal_index + 1)

AddBlockUnchecked(r, position) ==
    IF r.panic # "" THEN r ELSE AddFaces(r, position, 1)

\* ChunkMesher::add_block, lines 281-328.
AddBlock(r, position) ==
    IF r.panic # "" THEN r
    ELSE LET full == IsBlockFull(r.m.chunk, position)
         IN  IF full.panic # "" THEN [r EXCEPT !.panic = full.panic]
             ELSE IF ~full.value THEN r
             ELSE AddFaces(r, position, 1)

\* The positions of the three loops of lines 237-243, in their order (y, then
\* z, then x): those that are not Air, and the Air ones of the lowest layer.
\* add_block returns at once on every Air position; the Air positions of the
\* layers above the lowest are left out of the walk.
ScanOrder(chunk) ==
    LET full == DOMAIN chunk.voxels
        layers == IF full = {} THEN 1
                  ELSE 1 + CHOOSE y \in {v[2] : v \in full} : \A v \in full : v[2] <= y
        loops == [k \in 1..(layers * CHUNK_WIDTH * CHUNK_WIDTH) |->
                     << (k - 1) % CHUNK_WIDTH,
                        (k - 1) \div (CHUNK_WIDTH * CHUNK_WIDTH),
                        ((k - 1) \div CHUNK_WIDTH) % CHUNK_WIDTH >>]
    IN  SelectSeq(loops, LAMBDA v : v \in full \/ v[2] = 0)

RECURSIVE AddBlocks(_, _)
AddBlocks(r, positions) ==
    IF r.panic # "" \/ Len(positions) = 0 THEN r
    ELSE IF Len(positions) = 1 THEN AddBlock(r, positions[1])
    ELSE AddBlocks(AddBlocks(r, Front(positions)), Back(positions))

\* ChunkMesher::build, lines 236-246.
Build(m) == AddBlocks([m |-> m, panic |-> ""], ScanOrder(m.chunk))

(***************************************************************************)
(* A mesh job on its own: a chunk store generated from one of the terrains *)
(* that holds the chunk to mesh and some of its four neighbours.           *)
(***************************************************************************)
MesherTargets == {<<0, 0>>, <<-1, -1>>}

EdgeNeighbors(p) ==
    {<<p[1] + 1, p[2]>>, <<p[1] - 1, p[2]>>, <<p[1], p[2] + 1>>, <<p[1], p[2] - 1>>}

InitMesher ==
    /\ cm = New
    /\ panic = ""
    /\ last = NoTrace("new", <<>>)
    /\ \E terrain \in Terrains, target \in MesherTargets :
         \E resident \in SUBSET EdgeNeighbors(target) :
            LET chunks == [p \in {target} \cup resident |->
                              FillPerlin(ChunkNew(p), terrain)]
            IN  mesher = ChunkMesherNew(chunks, target).value

\* ChunkMesher::new(&chunks, position).build(), chunk_manager.rs line 241.
BuildStep ==
    /\ panic = ""
    /\ last.op = "new"
    /\ LET r == Build(mesher)
       IN  /\ mesher' = r.m
           /\ panic' = r.panic
           /\ last' = NoTrace("build", <<>>)
    /\ UNCHANGED cm

NextMesher == BuildStep

SpecMesher == InitMesher /\ [][NextMesher]_vars

(***************************************************************************)
(* The mesher and the solidity tests on grids written by hand: Chunk::new  *)
(* gives an all-Air grid and the field voxels is public, so a caller can   *)
(* set single voxels.  The neighbours are absent, all Air or generated.    *)
(***************************************************************************)
GridSpots == {<<8, 8, 8>>, <<0, 0, 0>>, <<15, 8, 0>>, <<8, 254, 8>>, <<8, 255, 8>>}

\* Positions next to (8, 8, 8) along an edge or across a corner of its faces.
RingSpots == {<<9, 9, 8>>, <<8, 9, 9>>, <<9, 9, 9>>}

GridVoxelSets ==
    {{}} \cup {{s} : s \in GridSpots}
         \cup {{<<8, 8, 8>>, <<8, 9, 8>>}, {<<0, 0, 0>>, <<8, 8, 8>>}}
         \cup {{<<8, 8, 8>>} \cup ring : ring \in (SUBSET RingSpots) \ {{}}}

NeighborFills == {"air", "flat"}

\* Chunk::new followed by writes of Stone into the public grid.
GridChunk(position, spots) ==
    [ChunkNew(position) EXCEPT !.voxels = [v \in spots |-> "Stone"]]

NeighborChunk(position, fill) ==
    IF fill = "air" THEN ChunkNew(position)
    ELSE FillPerlin(ChunkNew(position), fill)

\* The world positions and the local positions handed to the solidity tests:
\* inside the grid of the chunk at `target`, below it, above it and next to it.
ProbeWorlds(target) ==
    {<<CHUNK_WIDTH * target[1] + 8, y, CHUNK_WIDTH * target[2] + 8>> :
        y \in {-1, 8, CHUNK_HEIGHT - 1, CHUNK_HEIGHT}}
    \cup {<<CHUNK_WIDTH * target[1] - 1, 0, CHUNK_WIDTH * target[2]>>}

ProbeLocals ==
    {<<8, 8, 8>>, <<CHUNK_WIDTH, 0, 0>>, <<0, CHUNK_HEIGHT, 0>>, <<0, 0, CHUNK_WIDTH>>}

ProbeTrace(op, pos, value) == [op |-> op, pos |-> pos, value |-> value]

InitGrid ==
    /\ cm = New
    /\ panic = ""
    /\ last = NoTrace("new", <<>>)
    /\ \E target \in MesherTargets, spots \in GridVoxelSets, fill \in NeighborFills :
         \E resident \in SUBSET EdgeNeighbors(target) :
            LET chunks == [p \in {target} \cup resident |->
                              IF p = target THEN GridChunk(p, spots)
                              ELSE NeighborChunk(p, fill)]
            IN  mesher = ChunkMesherNew(chunks, target).value

\* A call of ChunkMesher::is_solid, mesher.rs lines 249-264.
IsSolidStep ==
    /\ panic = ""
    /\ last.op = "new"
    /\ \E world \in ProbeWorlds(mesher.chunk.position) :
         LET r == IsSolid(mesher.chunks, world)
         IN  /\ panic' = r.panic
             /\ last' = ProbeTrace("is_solid", world, r.value)
    /\ UNCHANGED <<cm, mesher>>

\* A call of Chunk::is_block_full on the chunk to mesh, chunk.rs lines 85-89.
IsBlockFullStep ==
    /\ panic = ""
    /\ last.op = "new"
    /\ \E block_pos \in ProbeLocals :
         LET r == IsBlockFull(mesher.chunk, block_pos)
         IN  /\ panic' = r.panic
             /\ last' = ProbeTrace("is_block_full", block_pos, r.value)
    /\ UNCHANGED <<cm, mesher>>

\* A call of calculate_ambient_occlusion for a vertex of a face of a voxel of
\* the chunk to mesh, as add_block makes it at mesher.rs line 308.
AmbientOcclusionStep ==
    /\ panic = ""
    /\ last.op = "new"
    /\ \E position \in DOMAIN mesher.chunk.voxels \cap {<<8, 8, 8>>, <<15, 8, 0>>},
          normal_index \in 1..Len(FACE_NORMALS), vertex_index \in 1..4 :
         LET r == CalculateAmbientOcclusion(mesher, position, normal_index, vertex_index)
         IN  /\ panic' = r.panic
             /\ last' = ProbeTrace("calculate_ambient_occlusion",
                                   <<position, normal_index, vertex_index>>, r.value)
    /\ UNCHANGED <<cm, mesher>>

NextGrid == BuildStep \/ IsSolidStep \/ IsBlockFullStep \/ AmbientOcclusionStep

SpecGrid == InitGrid /\ [][NextGrid]_vars

(***************************************************************************)
(* The scheduler together with its mesh jobs: after an update, one of the  *)
(* mesh jobs that the update ran in its scope (chunk_manager.rs lines      *)
(* 238-243) is shown with the meshes it built.  The job read the store as  *)
(* the update left it (only load_chunks, which runs before, writes chunks);*)
(* of that store the chunk and its edge neighbours are kept, the only      *)
(* chunks is_solid can reach from a voxel of the chunk.                    *)
(***************************************************************************)
JobStore(chunks, position, terrain) ==
    [q \in ({position} \cup EdgeNeighbors(position)) \cap chunks |->
        FillPerlin(ChunkNew(q), terrain)]

\* The terrains of the shown jobs.
JobTerrains == {"flat", "ridge_x"}

InitMeshJob == Init

SchedulerStep == mesher = <<>> /\ Next

MeshJobStep ==
    /\ panic = ""
    /\ mesher = <<>>
    /\ last.op = "update"
    /\ \E i \in 1..Len(last.mesh_sent), terrain \in JobTerrains :
         LET new == ChunkMesherNew(JobStore(cm.chunks, last.mesh_sent[i], terrain),
                                   last.mesh_sent[i])
             r == Build(new.value)
         IN  IF new.panic # ""
             THEN /\ panic' = new.panic
                  /\ mesher' = mesher
             ELSE /\ panic' = r.panic
                  /\ mesher' = r.m
    /\ last' = [last EXCEPT !.op = "build"]
    /\ UNCHANGED cm

NextMeshJob == SchedulerStep \/ MeshJobStep

SpecMeshJob == InitMeshJob /\ [][NextMeshJob]_vars

(***************************************************************************)
(* Chunk alone: fill_perlin on a new chunk, and the conversions between    *)
(* world and local voxel positions.                                        *)
(***************************************************************************)
\* Chunk positions on both sides of the origin.
ChunkPositions == {<<0, 0>>, <<-1, -1>>, <<1, 2>>, <<3, 3>>, <<-5, -5>>, <<-2, 1>>}

\* World voxels around the borders of the chunks next to the origin, below
\* the world included.
WorldVoxels ==
    ((-2 * CHUNK_WIDTH - 1)..(2 * CHUNK_WIDTH)) \X {-1, 0, CHUNK_HEIGHT - 1}
        \X {-CHUNK_WIDTH - 1, -CHUNK_WIDTH, -1, 0, CHUNK_WIDTH - 1, CHUNK_WIDTH}

\* The chunks fill_perlin is run on and their terrains: the stairs and the
\* slope fill most of a chunk and are drawn for a few positions only.
FillInputs ==
    (ChunkPositions \X Terrains)
        \cup {<< <<-1, -1>>, "stairs" >>, << <<0, 0>>, "slope" >>,
              << <<-5, -5>>, "slope" >>}

\* Local positions: the corners of the grid, an inner voxel, and positions
\* past each side of it.
LocalPositions ==
    {<<0, 0, 0>>, <<CHUNK_WIDTH - 1, CHUNK_HEIGHT - 1, CHUNK_WIDTH - 1>>, <<8, 8, 3>>,
     <<CHUNK_WIDTH, 0, 0>>, <<0, CHUNK_HEIGHT, 0>>, <<0, 0, CHUNK_WIDTH>>}

FillTrace(op, pos, terrain, chunk) ==
    [op |-> op, pos |-> pos, terrain |-> terrain, chunk |-> chunk]

InitChunk == Init

\* load_chunks' closure, lines 203-204: fill_perlin on Chunk::new(position).
FillPerlinStep ==
    /\ panic = "" /\ last.op = "new"
    /\ \E input \in FillInputs :
          last' = FillTrace("fill_perlin", input[1], input[2],
                            FillPerlin(ChunkNew(input[1]), input[2]))
    /\ UNCHANGED <<cm, panic, mesher>>

\* The resolution of a world voxel in is_solid, lines 250-263: the owning
\* chunk and get_local_position on it.
ResolveStep ==
    /\ panic = "" /\ last.op = "new"
    /\ \E world \in WorldVoxels :
          LET position == OwningChunk(world)
          IN  last' = ProbeTrace("get_local_position", world,
                                 <<position, GetLocalPosition(ChunkNew(position), world)>>)
    /\ UNCHANGED <<cm, panic, mesher>>

\* offset_local_in_direction with a zero direction, and get_local_position
\* of the same chunk on its result.
RoundTripStep ==
    /\ panic = "" /\ last.op = "new"
    /\ \E position \in ChunkPositions, local \in LocalPositions :
          LET chunk == ChunkNew(position)
              world == OffsetLocalInDirection(chunk, local, <<0, 0, 0>>)
          IN  last' = ProbeTrace("offset_local_in_direction", <<position, local>>,
                                 <<world, GetLocalPosition(chunk, world)>>)
    /\ UNCHANGED <<cm, panic, mesher>>

NextChunk == FillPerlinStep \/ ResolveStep \/ RoundTripStep

SpecChunk == InitChunk /\ [][NextChunk]_vars

(***************************************************************************)
(* Properties of the scheduler.                                            *)
(***************************************************************************)
\* Generation jobs in flight for a coordinate: dispatched, result not yet
\* drained.  A dispatched job has always sent its result when the dispatching
\* call goes on, so these are the results waiting in chunk_rx.
GenerationsInFlight(position) ==
    Cardinality({i \in 1..Len(cm.chunk_rx) : cm.chunk_rx[i] = position})

MeshResident == cm.unuploaded_meshes \cup cm.uploaded_meshes

\* C1: in every reachable state each coordinate is in at most one of the
\* load-queue, the in-flight-generating set and the chunk store, and the
\* load-queue holds no coordinate twice.
C1_LoadStagesDisjoint ==
    /\ Range(cm.load_queue) \cap cm.currently_generating = {}
    /\ Range(cm.load_queue) \cap cm.chunks = {}
    /\ cm.currently_generating \cap cm.chunks = {}
    /\ NoDup(cm.load_queue)

\* A focal change has re-enqueued while all three stages are populated.
C1_Witness ==
    /\ last.op = "update" /\ last.moved
    /\ cm.load_queue # <<>> /\ cm.currently_generating # {} /\ cm.chunks # {}

\* C2: in every reachable state each coordinate is in at most one of the
\* build-queue, the in-flight-meshing set and the mesh stores; the unuploaded
\* and uploaded stores are disjoint; the build-queue holds no coordinate twice.
C2_MeshStagesDisjoint ==
    /\ Range(cm.build_queue) \cap cm.currently_meshing = {}
    /\ Range(cm.build_queue) \cap MeshResident = {}
    /\ cm.currently_meshing \cap MeshResident = {}
    /\ cm.unuploaded_meshes \cap cm.uploaded_meshes = {}
    /\ NoDup(cm.build_queue)

\* A focal change has re-enqueued while every mesh stage is populated.
C2_Witness ==
    /\ last.op = "update" /\ last.moved
    /\ cm.build_queue # <<>> /\ cm.currently_meshing # {}
    /\ cm.unuploaded_meshes # {} /\ cm.uploaded_meshes # {}

\* C3: for every coordinate at most one generation job is in flight, and the
\* in-flight-generating set holds exactly the coordinates that have one.
C3_OneGenerationInFlight ==
    /\ \A position \in Range(cm.chunk_rx) : GenerationsInFlight(position) <= 1
    /\ Range(cm.chunk_rx) = cm.currently_generating

\* Jobs are in flight right after the focal chunk has changed.
C3_Witness ==
    /\ last.op = "update" /\ last.moved
    /\ cm.chunk_rx # <<>> /\ cm.chunks # {}

\* C4: every mesh job is dispatched for a coordinate whose chunk is in the
\* chunk store (the store does not change between the dispatch and the end of
\* the call), and the mesher's lookup never fails.
C4_MeshOnlyResident ==
    /\ Range(last.mesh_sent) \subseteq cm.chunks
    /\ panic # UnloadedChunk

\* Mesh jobs have been dispatched while other chunks were still to be loaded.
C4_Witness ==
    /\ last.mesh_sent # <<>>
    /\ cm.load_queue # <<>>
    /\ Range(cm.build_queue) \ cm.chunks # {}

\* C5: the assertion of build_meshes never fails, and no mesh result waits in
\* the channel for a coordinate that already has a mesh, or twice.
C5_NoDuplicateMesh ==
    /\ panic # DuplicateMesh
    /\ Range(cm.mesh_rx) \cap MeshResident = {}
    /\ NoDup(cm.mesh_rx)

\* Mesh results were drained by an update that changed the focal chunk, with
\* meshes in both stores.
C5_Witness ==
    /\ last.op = "update" /\ last.moved /\ last.mesh_recv # <<>>
    /\ cm.uploaded_meshes # {} /\ cm.unuploaded_meshes # {}
\* C6: dispatching does not wait for the job: the call that dispatches a job
\* does not already hold the job's result in the channel when it returns (the
\* job's completion is a step of the worker, not of the scheduler).
C6_DispatchDoesNotWait ==
    last.op = "update" =>
        /\ Range(last.gen_sent) \cap Range(cm.chunk_rx) = {}
        /\ Range(last.mesh_sent) \cap Range(cm.mesh_rx) = {}

\* The entries of q that are in the set S, in order.
Those(q, S) == SelectSeq(q, LAMBDA e : e \in S)

\* C7: an update whose focal position lies in the chunk of the previous update
\* does not run the enqueue step and puts no coordinate in either queue, but
\* drains every result of both channels and dispatches from both queues.
C7_SameChunkUpdate ==
    [][ (last'.op = "update" /\ cm.current_chunk = <<PlayerChunk(last'.pos)>>) =>
          LET n == Min(MAX_CHUNK_DATA_GENERATION_PER_FRAME, Len(cm.load_queue))
              m == Min(MAX_CHUNK_MESH_GENERATION_PER_FRAME, Len(cm.build_queue))
              examined == SubSeq(cm.build_queue, 1, m)
          IN  /\ ~last'.moved /\ last'.neighbors = <<>>
              /\ cm'.current_chunk = cm.current_chunk
              /\ cm'.load_queue = SubSeq(cm.load_queue, n + 1, Len(cm.load_queue))
              /\ Range(cm'.build_queue) \subseteq Range(cm.build_queue)
              /\ Len(cm'.build_queue) <= Len(cm.build_queue)
              /\ cm'.chunks = cm.chunks \cup Range(cm.chunk_rx)
              /\ cm'.unuploaded_meshes = cm.unuploaded_meshes \cup Range(cm.mesh_rx)
              /\ cm'.chunk_rx = SubSeq(cm.load_queue, 1, n)
              /\ cm'.currently_generating =
                    (cm.currently_generating \ Range(cm.chunk_rx)) \cup Range(cm'.chunk_rx)
              /\ cm'.mesh_rx = Those(examined, cm'.chunks)
              /\ cm'.currently_meshing =
                    (cm.currently_meshing \ Range(cm.mesh_rx)) \cup Range(cm'.mesh_rx)
      ]_vars

\* An update in the chunk of the previous one has drained results of both
\* channels and dispatched jobs of both kinds.
C7_Witness ==
    /\ last.op = "update" /\ ~last.moved
    /\ last.chunk_recv # <<>> /\ last.mesh_recv # <<>>
    /\ last.gen_sent # <<>> /\ last.mesh_sent # <<>>

\* C8: the candidates are ordered with every padding-ring coordinate (distance
\* above CHUNK_LOAD_RADIUS) before every in-radius coordinate, and by ascending
\* distance within each group.
C8_PaddingFirst ==
    LET N == last.neighbors
    IN  \A i, j \in 1..Len(N) :
            /\ (N[i][2] > CHUNK_LOAD_RADIUS /\ N[j][2] <= CHUNK_LOAD_RADIUS) => i < j
            /\ ((N[i][2] > CHUNK_LOAD_RADIUS) = (N[j][2] > CHUNK_LOAD_RADIUS) /\ i < j)
                    => N[i][2] <= N[j][2]

C10_DispatchCaps ==
    [][ /\ Len(last'.gen_sent) <= MAX_CHUNK_DATA_GENERATION_PER_FRAME
        /\ Len(last'.mesh_sent) <= MAX_CHUNK_MESH_GENERATION_PER_FRAME
        /\ Len(cm'.chunk_rx) <= MAX_CHUNK_DATA_GENERATION_PER_FRAME
        /\ Len(cm'.mesh_rx) <= MAX_CHUNK_MESH_GENERATION_PER_FRAME
        /\ Cardinality(cm'.currently_generating \ cm.currently_generating)
              <= MAX_CHUNK_DATA_GENERATION_PER_FRAME
        /\ Cardinality(cm'.currently_meshing \ cm.currently_meshing)
              <= MAX_CHUNK_MESH_GENERATION_PER_FRAME
        /\ Len(cm.load_queue) - Len(cm'.load_queue) <= MAX_CHUNK_DATA_GENERATION_PER_FRAME
      ]_vars

\* Both caps were reached by one update with entries left in both queues.
C10_Witness ==
    /\ Len(last.gen_sent) = MAX_CHUNK_DATA_GENERATION_PER_FRAME
    /\ Len(last.mesh_sent) = MAX_CHUNK_MESH_GENERATION_PER_FRAME
    /\ ~last.moved
    /\ cm.load_queue # <<>> /\ cm.build_queue # <<>>
\* C11: a build-queue entry that the mesh dispatch step of an update examines
\* while its chunk is not in the chunk store is in the build-queue after the
\* call, and neither in the in-flight-meshing set nor sent to the mesh pool.
C11_RequeuedNotDropped ==
    [][ last'.op = "update" =>
          LET m == Min(MAX_CHUNK_MESH_GENERATION_PER_FRAME, Len(cm.build_queue))
          IN  \A i \in 1..m :
                 cm.build_queue[i] \notin (cm.chunks \cup Range(cm.chunk_rx)) =>
                    /\ InSeq(cm'.build_queue, cm.build_queue[i])
                    /\ cm.build_queue[i] \notin cm'.currently_meshing
                    /\ ~InSeq(cm'.mesh_rx, cm.build_queue[i])
      ]_vars

\* An update has re-queued every entry it examined, their chunks being
\* generated but not yet in the store.
C11_Witness ==
    /\ last.op = "update"
    /\ Len(last.reinsert) = MAX_CHUNK_MESH_GENERATION_PER_FRAME
    /\ Range(last.reinsert) \subseteq cm.currently_generating
    /\ Range(last.reinsert) \subseteq Range(cm.build_queue)
\* Step a comes before step b in the history of a call.
Before(steps, a, b) ==
    \E i, j \in 1..Len(steps) : i < j /\ steps[i] = a /\ steps[j] = b

C13_GeneratedInCallIsMeshed ==
    [][ last'.op = "update" =>
          LET m == Min(MAX_CHUNK_MESH_GENERATION_PER_FRAME, Len(cm.build_queue))
          IN  \A i \in 1..m :
                 cm.build_queue[i] \in Range(cm'.chunk_rx) =>
                    /\ InSeq(cm'.mesh_rx, cm.build_queue[i])
                    /\ ~InSeq(cm'.build_queue, cm.build_queue[i])
      ]_vars

\* C13, amended: a build-queue entry examined by the mesh dispatch step of an
\* update whose generation result was drained by that update is dispatched to
\* the mesh pool, not re-queued.
C13_DrainedInCallIsMeshed ==
    [][ last'.op = "update" =>
          LET m == Min(MAX_CHUNK_MESH_GENERATION_PER_FRAME, Len(cm.build_queue))
          IN  \A i \in 1..m :
                 cm.build_queue[i] \in Range(cm.chunk_rx) =>
                    /\ InSeq(cm'.mesh_rx, cm.build_queue[i])
                    /\ cm.build_queue[i] \in cm'.currently_meshing
                    /\ ~InSeq(cm'.build_queue, cm.build_queue[i])
      ]_vars

\* An update has drained a generation result and dispatched the mesh job of
\* the same coordinate.
C13_Witness ==
    /\ last.op = "update"
    /\ Range(last.chunk_recv) \cap Range(last.mesh_sent) # {}
    /\ Range(last.mesh_sent) \subseteq cm.currently_meshing
C17_StoresWrittenByDrainOnly ==
    [][ /\ NoDup(cm.chunk_rx)
        /\ Range(cm.chunk_rx) \cap cm.chunks = {}
        /\ last'.op = "update" =>
             /\ cm'.chunks = cm.chunks \cup Range(cm.chunk_rx)
             /\ cm'.unuploaded_meshes = cm.unuploaded_meshes \cup Range(cm.mesh_rx)
             /\ cm'.uploaded_meshes = cm.uploaded_meshes
             /\ Range(cm'.mesh_rx) \subseteq cm'.chunks
        /\ last'.op = "resolve_mesh_uploads" =>
             /\ cm'.chunks = cm.chunks
             /\ cm'.uploaded_meshes = cm.uploaded_meshes \cup cm.unuploaded_meshes
             /\ cm'.unuploaded_meshes = {}
      ]_vars

\* An update has added received chunks to a store that already held others and
\* has run mesh tasks on it.
C17_Witness ==
    /\ last.op = "update"
    /\ last.chunk_recv # <<>>
    /\ cm.chunks \ Range(last.chunk_recv) # {}
    /\ last.mesh_sent # <<>>
    /\ cm.uploaded_meshes # {}
\* The results of q at the positions S, in the order of q.
Selected(q, S) ==
    [k \in 1..Cardinality(S) |->
        q[CHOOSE i \in S : Cardinality({j \in S : j < i}) = k - 1]]

C19_FocalChunkIsFloor ==
    last.op = "update" =>
        cm.current_chunk = << << last.pos[1] \div (2 * CHUNK_WIDTH),
                                 last.pos[2] \div (2 * CHUNK_WIDTH) >> >>
(***************************************************************************)
(* Properties of the mesher.                                               *)
(***************************************************************************)
\* The world position w holds a voxel that is not Air in a resident chunk,
\* read off the grids without any conversion of the mesher.
WorldFull(chunks, w) ==
    \E p \in DOMAIN chunks :
        <<w[1] - CHUNK_WIDTH * p[1], w[2], w[3] - CHUNK_WIDTH * p[2]>>
            \in DOMAIN chunks[p].voxels

\* The pairs <<world position of a voxel of the meshed chunk that is not Air,
\* direction>> whose neighbouring voxel is not solid.
Exposed(m) ==
    {f \in {<< <<v[1] + CHUNK_WIDTH * m.chunk.position[1], v[2],
                 v[3] + CHUNK_WIDTH * m.chunk.position[2]>>,
               FACE_NORMALS[i][2] >> : v \in DOMAIN m.chunk.voxels,
                                       i \in 1..Len(FACE_NORMALS)} :
        ~WorldFull(m.chunks, [a \in 1..3 |-> f[1][a] + f[2][a]])}

\* The voxel and direction of the k-th quad of the mesh, from its four
\* vertices: their mean is the centre of the voxel moved half a unit along
\* the normal.
QuadFace(m, k) ==
    LET vs == SubSeq(m.vertices, 4 * k - 3, 4 * k)
        normal == vs[1].normal
    IN  << [a \in 1..3 |->
              ((vs[1].pos[a] + vs[2].pos[a] + vs[3].pos[a] + vs[4].pos[a]) \div 4
                  - normal[a]) \div 2],
           normal >>

\* C20: the mesh built for a chunk holds one quad for every pair of a voxel
\* that is not Air and a direction whose neighbouring voxel, in this or in a
\* resident adjacent chunk, is not solid, and nothing else: 4 vertices and 6
\* indices for each such pair.
C20_QuadPerExposedFace ==
    last.op = "build" =>
        LET n == Cardinality(Exposed(mesher))
        IN  /\ panic = ""
            /\ Len(mesher.vertices) = 4 * n
            /\ Len(mesher.indices) = 6 * n
            /\ {QuadFace(mesher, k) : k \in 1..n} = Exposed(mesher)
            /\ \A k \in 1..n : \A i \in (4 * k - 3)..(4 * k) :
                  mesher.vertices[i].normal = mesher.vertices[4 * k - 3].normal

\* A mesh has been built for a chunk with a face hidden by a voxel of a
\* resident adjacent chunk and a face towards an adjacent chunk that is not
\* resident.
C20_Witness ==
    /\ last.op = "build"
    /\ mesher.vertices # <<>>
    /\ \E v \in DOMAIN mesher.chunk.voxels, i \in 1..Len(FACE_NORMALS) :
          LET w == GetWorldPosition(mesher.chunk, v, FACE_NORMALS[i][2])
          IN  /\ ~InGrid([a \in 1..3 |-> v[a] + FACE_NORMALS[i][2][a]])
              /\ WorldFull(mesher.chunks, w)
    /\ \E p \in EdgeNeighbors(mesher.chunk.position) : p \notin DOMAIN mesher.chunks

\* The world position of the voxel at the local position v of a chunk.
WorldOf(chunk, v) ==
    <<v[1] + CHUNK_WIDTH * chunk.position[1], v[2], v[3] + CHUNK_WIDTH * chunk.position[2]>>

\* The world position w lies in the grid of a resident chunk and holds Air.
HoldsAir(chunks, w) ==
    /\ w[2] \in 0..(CHUNK_HEIGHT - 1)
    /\ \E p \in DOMAIN chunks :
          /\ w[1] - CHUNK_WIDTH * p[1] \in 0..(CHUNK_WIDTH - 1)
          /\ w[3] - CHUNK_WIDTH * p[2] \in 0..(CHUNK_WIDTH - 1)
    /\ ~WorldFull(chunks, w)

\* The voxel at v of the meshed chunk is its only voxel that is not Air and
\* its six neighbouring positions hold Air.
LoneVoxel(m, v) ==
    /\ DOMAIN m.chunk.voxels = {v}
    /\ \A i \in 1..Len(FACE_NORMALS) :
          HoldsAir(m.chunks, [a \in 1..3 |-> WorldOf(m.chunk, v)[a] + FACE_NORMALS[i][2][a]])

\* C21: the mesh built for a chunk whose only voxel that is not Air has six
\* Air neighbours holds exactly 6 quads: 24 vertices and 36 indices.
C21_LoneVoxelSixQuads ==
    last.op = "build" =>
        \A v \in DOMAIN mesher.chunk.voxels :
            LoneVoxel(mesher, v) =>
                /\ panic = ""
                /\ Len(mesher.vertices) = 24
                /\ Len(mesher.indices) = 36

\* A mesh has been built for a chunk whose only voxel lies on two boundaries
\* of the chunk, with Air around it in the chunk and in the adjacent chunks.
C21_Witness ==
    /\ last.op = "build"
    /\ LoneVoxel(mesher, <<15, 8, 0>>)
    /\ Len(mesher.vertices) = 24

\* C22: the mesh built for a chunk whose voxels are all Air is empty, 0
\* vertices and 0 indices, whatever the adjacent chunks hold.
C22_AllAirEmptyMesh ==
    (last.op = "build" /\ DOMAIN mesher.chunk.voxels = {}) =>
        /\ panic = ""
        /\ mesher.vertices = <<>>
        /\ mesher.indices = <<>>

\* A mesh has been built for an all-Air chunk next to a resident chunk that
\* holds voxels along the common boundary.
C22_Witness ==
    /\ last.op = "build"
    /\ DOMAIN mesher.chunk.voxels = {}
    /\ mesher.vertices = <<>>
    /\ \E p \in EdgeNeighbors(mesher.chunk.position) :
          /\ p \in DOMAIN mesher.chunks
          /\ DOMAIN mesher.chunks[p].voxels # {}

\* The voxels and directions of the quads of a mesh.
QuadFaces(m) == {QuadFace(m, k) : k \in 1..(Len(m.vertices) \div 4)}

\* The pairs <<world position, direction>> of the voxels of the meshed chunk
\* that are not Air and lie on the boundary with the adjacent chunk q, the
\* direction pointing into q.
BoundaryFaces(m, q) ==
    LET normal == <<q[1] - m.chunk.position[1], 0, q[2] - m.chunk.position[2]>>
    IN  {<<WorldOf(m.chunk, v), normal>> :
            v \in {u \in DOMAIN m.chunk.voxels :
                     ~InGrid([a \in 1..3 |-> u[a] + normal[a]])}}

\* C23: a mesh job that the scheduler runs for a chunk while an edge-adjacent
\* chunk is not resident ends without a fatal error; every lookup into the
\* absent chunk answers not solid, and every voxel of the chunk that is not
\* Air and lies on that boundary gets its face towards the absent chunk.
C23_AbsentNeighborIsAir ==
    last.op = "build" =>
        \A q \in EdgeNeighbors(mesher.chunk.position) \ DOMAIN mesher.chunks :
            /\ panic = ""
            /\ BoundaryFaces(mesher, q) \subseteq QuadFaces(mesher)
            /\ \A f \in BoundaryFaces(mesher, q) :
                  IsSolid(mesher.chunks, [a \in 1..3 |-> f[1][a] + f[2][a]]) = Ok(FALSE)

\* The scheduler has run a mesh job for a chunk with one edge-adjacent chunk
\* resident and another one absent, and the mesh holds the faces towards the
\* absent one.
C23_Witness ==
    /\ last.op = "build"
    /\ panic = ""
    /\ \E q \in EdgeNeighbors(mesher.chunk.position) \ DOMAIN mesher.chunks :
          /\ BoundaryFaces(mesher, q) # {}
          /\ BoundaryFaces(mesher, q) \subseteq QuadFaces(mesher)
    /\ \E q \in EdgeNeighbors(mesher.chunk.position) : q \in DOMAIN mesher.chunks

\* C24: in a built mesh the six indices of the k-th quad, k counted from 0,
\* are 0, 1, 2, 2, 3, 0 each raised by 4k, the number of vertices emitted
\* before that quad; every index refers to a vertex of the mesh.
C24_QuadIndices ==
    (last.op = "build" /\ panic = "") =>
        LET n == Len(mesher.indices) \div 6
        IN  /\ Len(mesher.indices) = 6 * n
            /\ Len(mesher.vertices) = 4 * n
            /\ \A k \in 0..(n - 1) : \A i \in 1..6 :
                  /\ mesher.indices[6 * k + i] = FACE_INDICES[i] + 4 * k
                  /\ mesher.indices[6 * k + i] < Len(mesher.vertices)

\* A mesh of more than a hundred quads has been built.
C24_Witness ==
    /\ last.op = "build"
    /\ panic = ""
    /\ Len(mesher.indices) > 600
    /\ mesher.indices[601] = 400

\* The four vertices of the k-th quad of a mesh, k counted from 1.
QuadVertices(m, k) == SubSeq(m.vertices, 4 * k - 3, 4 * k)

\* The four vertices vs lie around the centre w of a voxel, on its face in
\* the direction normal: in half units, one step from the centre along the
\* normal and one step to either side along each of the two other axes, the
\* four combinations of sides once each.
AroundCentre(vs, w, normal) ==
    LET others == {a \in 1..3 : normal[a] = 0}
    IN  /\ Cardinality(others) = 2
        /\ \A i \in 1..4 : \A a \in (1..3) \ others : vs[i].pos[a] - 2 * w[a] = normal[a]
        /\ \A i \in 1..4 : \A a \in others : vs[i].pos[a] - 2 * w[a] \in {-1, 1}
        /\ \A i, j \in 1..4 :
              (i # j) => \E a \in others : vs[i].pos[a] # vs[j].pos[a]

\* C25: every face emitted for a voxel at the local position (x, y, z) of the
\* chunk at (cx, cz) has 4 vertices around the world-space centre
\* (x + cx * CHUNK_WIDTH, y, z + cz * CHUNK_WIDTH) of the voxel: half a unit
\* to either side along each of the two axes other than the normal, the four
\* combinations once each.  Every quad of the mesh is such a face of a voxel
\* of the chunk that is not Air, in a direction whose neighbour is not solid.
C25_VerticesAroundCentre ==
    last.op = "build" =>
        LET exposed == Exposed(mesher)
        IN  \A k \in 1..(Len(mesher.vertices) \div 4) :
                LET f == QuadFace(mesher, k)
                IN  /\ f \in exposed
                    /\ AroundCentre(QuadVertices(mesher, k), f[1], f[2])

\* The mesh of the chunk (-1, -1) whose only voxel is at (8, 8, 8) has been
\* built: 6 faces around the centre (-8, 8, -8).
C25_Witness ==
    /\ last.op = "build"
    /\ mesher.chunk.position = <<-1, -1>>
    /\ DOMAIN mesher.chunk.voxels = {<<8, 8, 8>>}
    /\ Len(mesher.vertices) = 24
    /\ \A k \in 1..6 : AroundCentre(QuadVertices(mesher, k), <<-8, 8, -8>>,
                                      FACE_NORMALS[k][2])

C27_SolidityTestBoundsChecked ==
    /\ (last.op = "is_block_full" /\ ~InGrid(last.pos)) =>
            (panic = "" /\ last.value = FALSE)
    /\ (last.op = "is_solid" /\ last.pos[2] \notin 0..(CHUNK_HEIGHT - 1)) =>
            (panic = "" /\ last.value = FALSE)

\* C28: meshes_loaded() is the number of coordinates with an unuploaded mesh
\* plus the number with an uploaded mesh, chunks_loaded() the number of
\* resident chunks, and loaded_meshes() yields the uploaded meshes only;
\* resolve_mesh_uploads moves every unuploaded mesh to the uploaded store
\* under its coordinate, leaves the unuploaded store empty and leaves
\* meshes_loaded(), the queues, the in-flight sets and the chunks unchanged.
C28_CountersAndUpload ==
    /\ [](/\ MeshesLoaded(cm) = Cardinality(cm.unuploaded_meshes \cup cm.uploaded_meshes)
          /\ cm.unuploaded_meshes \cap cm.uploaded_meshes = {}
          /\ ChunksLoaded(cm) = Cardinality(cm.chunks)
          /\ LoadedMeshes(cm) \cap cm.unuploaded_meshes = {}
          /\ LoadedMeshes(cm) = cm.uploaded_meshes)
    /\ [][last'.op = "resolve_mesh_uploads" =>
            /\ cm'.uploaded_meshes = cm.uploaded_meshes \cup cm.unuploaded_meshes
            /\ cm'.unuploaded_meshes = {}
            /\ MeshesLoaded(cm') = MeshesLoaded(cm)
            /\ ChunksLoaded(cm') = ChunksLoaded(cm)
            /\ cm'.chunks = cm.chunks
            /\ cm'.load_queue = cm.load_queue
            /\ cm'.build_queue = cm.build_queue
            /\ cm'.currently_generating = cm.currently_generating
            /\ cm'.currently_meshing = cm.currently_meshing
            /\ cm'.chunk_rx = cm.chunk_rx
            /\ cm'.mesh_rx = cm.mesh_rx]_vars

\* resolve_mesh_uploads has run with meshes uploaded, while chunks are
\* queued and jobs are in flight.
C28_Witness ==
    /\ last.op = "resolve_mesh_uploads"
    /\ cm.unuploaded_meshes = {}
    /\ Cardinality(cm.uploaded_meshes) >= 2
    /\ MeshesLoaded(cm) = Cardinality(cm.uploaded_meshes)
    /\ cm.currently_meshing # {}
    /\ cm.build_queue # <<>>

\* The coordinates the manager c knows of.
Known(c) ==
    c.chunks \cup c.unuploaded_meshes \cup c.uploaded_meshes
        \cup Range(c.load_queue) \cup Range(c.build_queue)
        \cup c.currently_generating \cup c.currently_meshing

\* The load state of the coordinate p: 0 Unrequested, 1 Queued, 2 Generating,
\* 3 Resident.
LoadState(c, p) ==
    IF p \in c.chunks THEN 3
    ELSE IF p \in c.currently_generating THEN 2
    ELSE IF InSeq(c.load_queue, p) THEN 1
    ELSE 0

\* The mesh state of the coordinate p: 0 Unrequested, 1 Queued, 2 Meshing,
\* 3 Built (unuploaded), 4 Uploaded.
MeshState(c, p) ==
    IF p \in c.uploaded_meshes THEN 4
    ELSE IF p \in c.unuploaded_meshes THEN 3
    ELSE IF p \in c.currently_meshing THEN 2
    ELSE IF InSeq(c.build_queue, p) THEN 1
    ELSE 0

\* No coordinate is in two places of the load pipeline or in two places of
\* the mesh pipeline at a time, so the states are well defined.
OnePlace(c) ==
    LET load == <<Range(c.load_queue), c.currently_generating, c.chunks>>
        mesh == <<Range(c.build_queue), c.currently_meshing,
                  c.unuploaded_meshes, c.uploaded_meshes>>
    IN  /\ \A i, j \in 1..3 : i < j => load[i] \cap load[j] = {}
        /\ \A i, j \in 1..4 : i < j => mesh[i] \cap mesh[j] = {}

Reach ==
    LET far == CHUNK_LOAD_RADIUS + CHUNK_LOAD_PADDING
    IN  ((-1 - far)..(MaxPlayerChunk + far)) \X ((-far)..far)

\* C30: under repeated update calls every coordinate that is in the
\* load-queue is resident at some later time, wherever the player moves
\* meanwhile.
C30_QueuedBecomesResident ==
    \A p \in Reach : InSeq(cm.load_queue, p) ~> (p \in cm.chunks)

\* An update that moved the focal chunk has drained generated chunks that
\* were queued before, with further coordinates waiting in the load-queue.
C30_Witness ==
    /\ last.op = "update"
    /\ last.moved
    /\ last.chunk_recv # <<>>
    /\ Range(last.chunk_recv) \subseteq cm.chunks
    /\ cm.load_queue # <<>>
    /\ Known(cm) \subseteq Reach

\* C31: under repeated update calls every coordinate that is in the
\* build-queue has a built mesh at some later time: an entry re-queued
\* because its chunk is not resident yet is dispatched by a later call.
C31_QueuedBecomesBuilt ==
    \A p \in Reach : InSeq(cm.build_queue, p) ~> (p \in MeshResident)

\* An update has re-queued build entries whose chunks are not resident yet
\* while meshes of entries queued before are built and others are in flight.
C31_Witness ==
    /\ last.op = "update"
    /\ last.reinsert # <<>>
    /\ Range(last.reinsert) \subseteq Range(cm.build_queue) \ cm.chunks
    /\ Known(cm) \subseteq Reach

\* The coordinates in the mesh pipeline of the manager c: queued for a mesh,
\* being meshed, or with a built mesh.
MeshPipeline(c) ==
    Range(c.build_queue) \cup c.currently_meshing
        \cup c.unuploaded_meshes \cup c.uploaded_meshes

\* The coordinates in the load pipeline of the manager c.
LoadPipeline(c) ==
    Range(c.load_queue) \cup c.currently_generating \cup c.chunks

\* The chunks that have been the focal chunk of an enqueue step: the step
\* puts every candidate of the square in the load pipeline and nothing
\* leaves the load pipeline.
Visited(c) ==
    {f \in {PlayerChunk(pos) : pos \in PlayerPositions} :
        Range(GetChunksAround(f, CHUNK_LOAD_RADIUS + CHUNK_LOAD_PADDING))
            \subseteq LoadPipeline(c)}

\* The coordinates that have been within CHUNK_LOAD_RADIUS of a focal chunk.
EverInRadius(c) ==
    UNION {Range(GetChunksAround(f, CHUNK_LOAD_RADIUS)) : f \in Visited(c)}

\* C32: padding chunks only get voxel data, never a mesh.  A coordinate
\* enters the build-queue, and the mesh pipeline as a whole, only in an update
\* that runs the enqueue step and only when its Chebyshev distance from the
\* focal chunk is at most CHUNK_LOAD_RADIUS; a coordinate that has only been
\* in the padding ring is in no build-queue, meshing set or mesh store.
C32_PaddingNeverMeshed ==
    /\ [](MeshPipeline(cm) \subseteq EverInRadius(cm))
    /\ [][\A p \in MeshPipeline(cm') \ MeshPipeline(cm) :
            /\ last'.op = "update" /\ last'.moved
            /\ InSeq(cm'.build_queue, p)
            /\ Distance(cm'.current_chunk[1], p) <= CHUNK_LOAD_RADIUS]_vars

\* Two focal chunks have been visited and the chunks of padding coordinates
\* are resident, none of them in the mesh pipeline, while coordinates within
\* the radius have built meshes.
C32_Witness ==
    /\ Cardinality(Visited(cm)) >= 2
    /\ cm.chunks \ EverInRadius(cm) # {}
    /\ (cm.chunks \ EverInRadius(cm)) \cap MeshPipeline(cm) = {}
    /\ MeshResident # {}
    /\ \E p \in Range(cm.build_queue) :
          Distance(cm.current_chunk[1], p) = CHUNK_LOAD_RADIUS

\* C33: there is no re-mesh trigger.  A mesh job is dispatched only for a
\* coordinate that is queued and has never been dispatched, once per call,
\* and a coordinate that has been dispatched is never queued again: over a
\* run at most one mesh job is dispatched per coordinate, whether or not its
\* neighbours were resident when the mesh was built and wherever the focal
\* chunk moves afterwards.
C33_NoRemesh ==
    [][/\ last'.op = "update" =>
            /\ NoDup(last'.mesh_sent)
            /\ \A p \in Range(last'.mesh_sent) :
                  /\ MeshState(cm, p) = 1
                  /\ MeshState(cm', p) = 2
       /\ \A p \in Known(cm) :
            MeshState(cm, p) >= 2 =>
                /\ MeshState(cm', p) >= 2
                /\ ~InSeq(cm'.build_queue, p)
                /\ ~InSeq(last'.mesh_sent, p)]_vars

\* An update that changed the focal chunk has made resident the chunk of an
\* edge neighbour of a coordinate whose mesh was built and uploaded before,
\* and that coordinate is neither queued nor dispatched again.
C33_Witness ==
    /\ last.op = "update"
    /\ last.moved
    /\ \E p \in cm.uploaded_meshes :
          /\ EdgeNeighbors(p) \cap Range(last.chunk_recv) # {}
          /\ ~InSeq(cm.build_queue, p)
          /\ ~InSeq(last.mesh_sent, p)
          /\ p \notin cm.currently_meshing

\* C34: in every reachable state each coordinate in the build-queue is also
\* in the load pipeline: in the load-queue, in the set of coordinates being
\* generated, or resident.
C34_BuildQueueInLoadPipeline ==
    Range(cm.build_queue) \subseteq LoadPipeline(cm)

\* After an update the build-queue holds at once a coordinate still in the
\* load-queue, one being generated and one that is resident.
C34_Witness ==
    /\ last.op = "update"
    /\ Range(cm.build_queue) \cap Range(cm.load_queue) # {}
    /\ Range(cm.build_queue) \cap cm.currently_generating # {}
    /\ Range(cm.build_queue) \cap cm.chunks # {}

ClampedHeight(terrain, x, z) ==
    Max(0, Min(NoiseHeight(terrain, x, z), CHUNK_HEIGHT - 2))

\* C36: for a column whose clamped integer height is h, 0 <= h <=
\* CHUNK_HEIGHT - 2, fill_perlin makes exactly the voxels y in 0..h solid and
\* leaves every y > h Air; the material is Snow for y >= 200, Stone for
\* 150 <= y < 200, Grass for y = h < 150, Dirt otherwise.
C36_FillLayers ==
    last.op = "fill_perlin" =>
        \A x, z \in 0..(CHUNK_WIDTH - 1) :
            LET h == ClampedHeight(last.terrain, last.pos[1] * CHUNK_WIDTH + x,
                                   last.pos[2] * CHUNK_WIDTH + z)
            IN  /\ h \in 0..(CHUNK_HEIGHT - 2)
                /\ \A y \in 0..(CHUNK_HEIGHT - 1) :
                      VoxelAt(last.chunk, <<x, y, z>>) =
                          IF y > h THEN "Air"
                          ELSE IF y >= 200 THEN "Snow"
                          ELSE IF y >= 150 THEN "Stone"
                          ELSE IF y = h THEN "Grass"
                          ELSE "Dirt"

\* A filled chunk has columns with their surface in each layer: Grass on top
\* below 150, Stone on top, Snow on top, and a column cut at CHUNK_HEIGHT - 2.
C36_Witness ==
    /\ last.op = "fill_perlin"
    /\ \E x, z \in 0..(CHUNK_WIDTH - 1) :
          /\ VoxelAt(last.chunk, <<x, 149, z>>) = "Grass"
          /\ VoxelAt(last.chunk, <<x, 148, z>>) = "Dirt"
    /\ \E x, z \in 0..(CHUNK_WIDTH - 1) :
          /\ VoxelAt(last.chunk, <<x, 150, z>>) = "Stone"
          /\ VoxelAt(last.chunk, <<x, 151, z>>) = "Air"
    /\ \E x, z \in 0..(CHUNK_WIDTH - 1) :
          /\ VoxelAt(last.chunk, <<x, 200, z>>) = "Snow"
          /\ VoxelAt(last.chunk, <<x, 199, z>>) = "Stone"
          /\ VoxelAt(last.chunk, <<x, 201, z>>) = "Air"
    /\ \E x, z \in 0..(CHUNK_WIDTH - 1) :
          /\ NoiseHeight(last.terrain, last.pos[1] * CHUNK_WIDTH + x,
                         last.pos[2] * CHUNK_WIDTH + z) > CHUNK_HEIGHT - 2
          /\ VoxelAt(last.chunk, <<x, CHUNK_HEIGHT - 2, z>>) = "Snow"

\* C37: cross-chunk voxel resolution round-trips for every chunk position,
\* negative ones included.  For a world voxel (x, y, z) with y >= 0 the
\* owning chunk (cx, cz) is the floor of (x, z) / CHUNK_WIDTH, and the local
\* position is (x - cx * CHUNK_WIDTH, y, z - cz * CHUNK_WIDTH) with both
\* offsets in 0..CHUNK_WIDTH - 1; a local position converted to world
\* coordinates with a zero direction and back is the same local position.
C37_ResolutionRoundTrips ==
    /\ last.op = "get_local_position" /\ last.pos[2] >= 0 =>
          LET w == last.pos
              c == last.value[1]
          IN  /\ c[1] * CHUNK_WIDTH <= w[1] /\ w[1] < (c[1] + 1) * CHUNK_WIDTH
              /\ c[2] * CHUNK_WIDTH <= w[3] /\ w[3] < (c[2] + 1) * CHUNK_WIDTH
              /\ last.value[2] = << <<w[1] - c[1] * CHUNK_WIDTH, w[2],
                                      w[3] - c[2] * CHUNK_WIDTH>> >>
              /\ last.value[2][1][1] \in 0..(CHUNK_WIDTH - 1)
              /\ last.value[2][1][3] \in 0..(CHUNK_WIDTH - 1)
    /\ last.op = "offset_local_in_direction" =>
          last.value[2] = << last.pos[2] >>

\* A world voxel with negative x and z, neither on a chunk border, has been
\* resolved to the last column of a chunk with negative coordinates.
C37_Witness ==
    /\ last.op = "get_local_position"
    /\ last.pos = <<-CHUNK_WIDTH - 1, CHUNK_HEIGHT - 1, -1>>
    /\ last.value = << <<-2, -1>>,
                       << <<CHUNK_WIDTH - 1, CHUNK_HEIGHT - 1, CHUNK_WIDTH - 1>> >> >>

\* C38: in every chunk produced by generation the top layer
\* y = CHUNK_HEIGHT - 1 is Air throughout; hence, meshing a generated chunk
\* among generated neighbours, every solidity test is at a y below
\* CHUNK_HEIGHT (the six face neighbours of each voxel that is not Air, and
\* the ring offsets around them), and the build never indexes a voxel grid
\* out of bounds.
C38_GeneratedTopLayerAir ==
    /\ \A p \in DOMAIN mesher.chunks :
          \A v \in DOMAIN mesher.chunks[p].voxels : v[2] < CHUNK_HEIGHT - 1
    /\ \A v \in DOMAIN mesher.chunk.voxels :
          \A i \in 1..Len(FACE_NORMALS) :
             /\ GetWorldPosition(mesher.chunk, v, FACE_NORMALS[i][2])[2] < CHUNK_HEIGHT
             /\ \A j \in 1..8 :
                   GetWorldPosition(mesher.chunk, v,
                                    AMBIENT_NEIGHBOR_OFFSETS[i][j])[2] < CHUNK_HEIGHT
    /\ panic # IndexOutOfBounds
    /\ last.op = "build" => panic = ""

\* A mesh has been built, with a resident neighbour, for a generated chunk
\* whose highest column was cut at CHUNK_HEIGHT - 2: the face on top of it,
\* towards the Air of the top layer, is in the mesh.
C38_Witness ==
    /\ last.op = "build"
    /\ panic = ""
    /\ Cardinality(DOMAIN mesher.chunks) >= 2
    /\ \E v \in DOMAIN mesher.chunk.voxels :
          /\ v[2] = CHUNK_HEIGHT - 2
          /\ \E k \in 1..(Len(mesher.vertices) \div 4) :
                QuadFace(mesher, k) = << WorldOf(mesher.chunk, v), <<0, 1, 0>> >>

====
